---- MODULE Spec2Model ----
(***************************************************************************)
(* Model of the render front-end of gfx-rs (src/src/render/lib.rs): the    *)
(* resource cache of token-indexed futures, the Dispatcher that drains the *)
(* reply channel until a predicate on the cache holds, and the Renderer    *)
(* that translates create/draw/clear calls into device requests.  The      *)
(* device worker on the other side of the channels is the environment.     *)
(***************************************************************************)
EXTENDS Integers, Sequences, FiniteSets, TLC

(***************************************************************************)
(* Bounds of the model.                                                    *)
(***************************************************************************)
MaxBuffers == 2
MaxTextures == 2
MaxSamplers == 1
MaxLinked == 2
MaxQueue == 0
MaxChannel == 2
MaxCreated == 3
DrawChannel == 1
MaxColorTargets == 2
MaxPlane == 2
MaxItems == 3
MaxAttributes == 2

(***************************************************************************)
(* State.                                                                  *)
(***************************************************************************)
VARIABLES
    resource,       \* Dispatcher.resource : the cache, one table per kind
    channel,        \* Dispatcher.channel  : replies in flight to the renderer
    errors,         \* Dispatcher.errors   : asynchronous device error queue
    device_tx,      \* Renderer.device_tx  : requests in flight to the worker
    swap_ack,       \* Renderer.swap_ack   : number of Acks in flight
    state_frame,    \* Renderer.state.frame: the last frame bound
    pc,             \* position of the renderer thread
    call,           \* the renderer operation being executed and its arguments
    loc,            \* its local variables
    ret,            \* its return value, once it returned
    sent,           \* the requests it sent so far
    rcvd,           \* the replies and acks it received so far
    calls           \* worker: Calls received and not yet replied to

vars == <<resource, channel, errors, device_tx, swap_ack, state_frame,
          pc, call, loc, ret, sent, rcvd, calls>>

Kinds == {"buffers", "array_buffers", "shaders", "programs",
          "textures", "samplers", "frame_buffers"}

(***************************************************************************)
(* resource::Future : Pending, Loaded(value) or Failed(error).             *)
(***************************************************************************)
Pending == [st |-> "Pending", v |-> 0]

Loaded(v) == [st |-> "Loaded", v |-> v]

Failed == [st |-> "Failed", v |-> 0]

is_pending(slot) == slot.st = "Pending"

\* Tables are 0-indexed vectors; table[token] of the source is At(table, token).
At(table, token) == table[token + 1]

Push(res, kind, slot) == [res EXCEPT ![kind] = Append(@, slot)]

(***************************************************************************)
(* Messages.  device::Request is Call(token, command), Cast(command) or    *)
(* SwapBuffers; device::Reply carries the token and the result.            *)
(***************************************************************************)
Call(token, cmd, args) == [tag |-> "Call", cmd |-> cmd, token |-> token, args |-> args]

Cast(cmd, args) == [tag |-> "Cast", cmd |-> cmd, token |-> 0, args |-> args]

SwapBuffers == [tag |-> "SwapBuffers", cmd |-> "SwapBuffers", token |-> 0, args |-> <<>>]

Reply(kind, token, ok, v) == [kind |-> kind, token |-> token, ok |-> ok, v |-> v]

DeviceError(kind, token) == [kind |-> kind, token |-> token]

NoCall == [op |-> "none"]

NoLoc == [i |-> 0]

NoRet == [tag |-> "none"]

(***************************************************************************)
(* resource::Cache::process : apply one reply to the addressed slot.       *)
(***************************************************************************)
process(res, reply) ==
    IF reply.ok
    THEN [res |-> [res EXCEPT ![reply.kind][reply.token + 1] = Loaded(reply.v)],
          err |-> <<>>]
    ELSE [res |-> [res EXCEPT ![reply.kind][reply.token + 1] = Failed],
          err |-> <<DeviceError(reply.kind, reply.token)>>]

(***************************************************************************)
(* Renderer::new                                                           *)
(***************************************************************************)
default_frame_buffer == 0

PlaneEmpty == 0

FrameNew == [colors |-> [i \in 1..MaxColorTargets |-> PlaneEmpty],
             depth |-> PlaneEmpty, stencil |-> PlaneEmpty]

CacheNew == [k \in Kinds |-> <<>>]

Init ==
    /\ resource = Push(Push(CacheNew, "array_buffers", Pending), "frame_buffers", Pending)
    /\ device_tx = <<Call(0, "CreateArrayBuffer", <<>>), Call(0, "CreateFrameBuffer", <<>>)>>
    /\ channel = <<>>
    /\ errors = <<>>
    /\ swap_ack = 0
    /\ state_frame = FrameNew
    /\ pc = "done"
    /\ call = [op |-> "new"]
    /\ loc = NoLoc
    /\ ret = NoRet
    /\ sent = device_tx
    /\ rcvd = 0
    /\ calls = {}

(***************************************************************************)
(* target::Frame and Renderer::bind_frame.  A frame with no attachment at  *)
(* all is the default target.                                              *)
(***************************************************************************)
is_default(frame) ==
    /\ \A i \in 1..MaxColorTargets : frame.colors[i] = PlaneEmpty
    /\ frame.depth = PlaneEmpty
    /\ frame.stencil = PlaneEmpty

TargetColor(i) == <<0, i>>

TargetDepth == <<1, 0>>

TargetStencil == <<2, 0>>

BindTarget(target, plane) == Cast("BindTarget", target \o <<plane>>)

\* BindColors with the comparison dropped: every color target is bound again.
RECURSIVE BindColorsAlways(_, _, _)
BindColorsAlways(cur, new, i) ==
    IF i > Len(cur.colors) \/ i > Len(new.colors) THEN <<>>
    ELSE <<BindTarget(TargetColor(i - 1), new.colors[i])>> \o BindColorsAlways(cur, new, i + 1)

\* for (i, (cur, new)) in cur.colors.iter().zip(new.colors.iter()).enumerate()
RECURSIVE BindColors(_, _, _)
BindColors(cur, new, i) ==
    IF i > Len(cur.colors) \/ i > Len(new.colors) THEN <<>>
    ELSE (IF cur.colors[i] # new.colors[i]
          THEN <<BindTarget(TargetColor(i - 1), new.colors[i])>>
          ELSE <<>>)
         \o BindColors(cur, new, i + 1)

\* The commands of the non-default branch, once the common framebuffer is known.
BindFrameTargets(cur, new, fbo) ==
    <<Cast("BindFrameBuffer", <<fbo>>)>>
    \o BindColors(cur, new, 1)
    \o (IF cur.depth # new.depth THEN <<BindTarget(TargetDepth, new.depth)>> ELSE <<>>)
    \o (IF cur.stencil # new.stencil THEN <<BindTarget(TargetStencil, new.stencil)>> ELSE <<>>)

BindFrameDefault == <<Cast("BindFrameBuffer", <<default_frame_buffer>>)>>

(***************************************************************************)
(* Results of the binding steps: the commands cast, and how the step ended *)
(* (Ok, an error value, or a task failure).                                *)
(***************************************************************************)
Res(cmds, tag, v) == [cmds |-> cmds, tag |-> tag, v |-> v]

(***************************************************************************)
(* Renderer::bind_shader_bundle.  A bundle is a program token and the      *)
(* parameter data; bundle.bind visits the data items in order, calling the *)
(* uniform, block or texture callback for each.                            *)
(***************************************************************************)
NoSampler == 0 - 1

BundleStart == [cmds |-> <<>>, block_slot |-> 0, texture_slot |-> 0,
                block_fail |-> <<>>, texture_fail |-> <<>>, failed |-> FALSE]

\* BindItem whose block and texture slot counters advance on a failure too.
BindItemCountsFailures(acc, meta, item, res) ==
    CASE item.kind = "uniform" ->
            [acc EXCEPT !.cmds = @ \o <<Cast("BindUniform",
                                    <<meta.uniforms[item.var + 1], item.value>>)>>]
      [] item.kind = "block" ->
            LET slot == At(res.buffers, item.handle)
            IN  IF slot.st = "Loaded"
                THEN [acc EXCEPT !.cmds = @ \o <<Cast("BindUniformBlock",
                                        <<meta.name, acc.block_slot, item.var, slot.v>>)>>,
                                 !.block_slot = @ + 1]
                ELSE [acc EXCEPT !.block_fail = <<item.var>>, !.block_slot = @ + 1]
      [] item.kind = "texture" ->
            IF item.sampler # NoSampler /\ At(res.samplers, item.sampler).st # "Loaded"
            THEN [acc EXCEPT !.failed = TRUE]
            ELSE LET sam == IF item.sampler = NoSampler THEN NoSampler
                            ELSE At(res.samplers, item.sampler).v
                     slot == At(res.textures, item.handle)
                 IN  IF slot.st = "Loaded"
                     THEN [acc EXCEPT !.cmds = @ \o
                                <<Cast("BindUniform", <<meta.textures[item.var + 1],
                                                        acc.texture_slot>>),
                                  Cast("BindTexture", <<acc.texture_slot, slot.v, sam>>)>>,
                                      !.texture_slot = @ + 1]
                     ELSE [acc EXCEPT !.texture_fail = <<item.var>>, !.texture_slot = @ + 1]

\* The callback for one item, on the accumulated locals acc.
BindItem(acc, meta, item, res) ==
    CASE item.kind = "uniform" ->
            [acc EXCEPT !.cmds = @ \o <<Cast("BindUniform",
                                    <<meta.uniforms[item.var + 1], item.value>>)>>]
      [] item.kind = "block" ->
            LET slot == At(res.buffers, item.handle)
            IN  IF slot.st = "Loaded"
                THEN [acc EXCEPT !.cmds = @ \o <<Cast("BindUniformBlock",
                                        <<meta.name, acc.block_slot, item.var, slot.v>>)>>,
                                 !.block_slot = @ + 1]
                ELSE [acc EXCEPT !.block_fail = <<item.var>>]
      [] item.kind = "texture" ->
            IF item.sampler # NoSampler /\ At(res.samplers, item.sampler).st # "Loaded"
            THEN [acc EXCEPT !.failed = TRUE]
            ELSE LET sam == IF item.sampler = NoSampler THEN NoSampler
                            ELSE At(res.samplers, item.sampler).v
                     slot == At(res.textures, item.handle)
                 IN  IF slot.st = "Loaded"
                     THEN [acc EXCEPT !.cmds = @ \o
                                <<Cast("BindUniform", <<meta.textures[item.var + 1],
                                                        acc.texture_slot>>),
                                  Cast("BindTexture", <<acc.texture_slot, slot.v, sam>>)>>,
                                      !.texture_slot = @ + 1]
                     ELSE [acc EXCEPT !.texture_fail = <<item.var>>]

RECURSIVE BindItems(_, _, _, _, _)
BindItems(acc, meta, data, res, i) ==
    IF i > Len(data) \/ acc.failed THEN acc
    ELSE BindItems(BindItem(acc, meta, data[i], res), meta, data, res, i + 1)

\* BundleResult with the two error arms in the other order.
BundleResultTextureFirst(acc) ==
    IF acc.failed THEN Res(acc.cmds, "abort", 0)
    ELSE IF acc.texture_fail # <<>> THEN Res(acc.cmds, "ErrorBundleTexture", acc.texture_fail[1])
    ELSE IF acc.block_fail # <<>> THEN Res(acc.cmds, "ErrorBundleBlock", acc.block_fail[1])
    ELSE Res(acc.cmds, "Ok", 0)

\* match (block_fail, texture_fail)
BundleResult(acc) ==
    IF acc.failed THEN Res(acc.cmds, "abort", 0)
    ELSE IF acc.block_fail # <<>> THEN Res(acc.cmds, "ErrorBundleBlock", acc.block_fail[1])
    ELSE IF acc.texture_fail # <<>> THEN Res(acc.cmds, "ErrorBundleTexture", acc.texture_fail[1])
    ELSE Res(acc.cmds, "Ok", 0)

bind_shader_bundle(meta, bundle, res) ==
    BundleResult(BindItems([BundleStart EXCEPT !.cmds = <<Cast("BindProgram", <<meta.name>>)>>],
                           meta, bundle.data, res, 1))

(***************************************************************************)
(* Renderer::bind_mesh                                                     *)
(***************************************************************************)
is_compatible(elem_type, base_type) == elem_type = base_type

\* mesh.attributes.iter().find(|a| a.name == sat.name): the first match, or <<>>
RECURSIVE FindAttribute(_, _, _)
FindAttribute(attributes, name, i) ==
    IF i > Len(attributes) THEN <<>>
    ELSE IF attributes[i].name = name THEN <<attributes[i]>>
    ELSE FindAttribute(attributes, name, i + 1)

\* BindAttributes that passes over an attribute of an incompatible type, binds
\* the later ones and reports the type error at the end.
RECURSIVE BindAttributesKeepsGoing(_, _, _, _, _)
BindAttributesKeepsGoing(cmds, mesh, prog, res, i) ==
    IF i > Len(prog.attributes) THEN Res(cmds, "Ok", 0)
    ELSE LET sat == prog.attributes[i]
             found == FindAttribute(mesh.attributes, sat.name, 1)
         IN  IF found = <<>> THEN Res(cmds, "ErrorAttributeMissing", 0)
             ELSE LET vat == found[1]
                      slot == At(res.buffers, vat.buffer)
                  IN  IF ~is_compatible(vat.elem_type, sat.base_type)
                      THEN LET rest == BindAttributesKeepsGoing(cmds, mesh, prog, res, i + 1)
                           IN  Res(rest.cmds, "ErrorAttributeType", 0)
                      ELSE IF slot.st # "Loaded" THEN Res(cmds, "abort", 0)
                      ELSE BindAttributesKeepsGoing(
                              cmds \o <<Cast("BindAttribute",
                                           <<sat.location, slot.v, vat.elem_type>>)>>,
                              mesh, prog, res, i + 1)

RECURSIVE BindAttributes(_, _, _, _, _)
BindAttributes(cmds, mesh, prog, res, i) ==
    IF i > Len(prog.attributes) THEN Res(cmds, "Ok", 0)
    ELSE LET sat == prog.attributes[i]
             found == FindAttribute(mesh.attributes, sat.name, 1)
         IN  IF found = <<>> THEN Res(cmds, "ErrorAttributeMissing", 0)
             ELSE LET vat == found[1]
                      slot == At(res.buffers, vat.buffer)
                  IN  IF ~is_compatible(vat.elem_type, sat.base_type)
                      THEN Res(cmds, "ErrorAttributeType", 0)
                      ELSE IF slot.st # "Loaded" THEN Res(cmds, "abort", 0)
                      ELSE BindAttributes(
                              cmds \o <<Cast("BindAttribute",
                                           <<sat.location, slot.v, vat.elem_type>>)>>,
                              mesh, prog, res, i + 1)

bind_mesh(mesh, prog, res) == BindAttributes(<<>>, mesh, prog, res, 1)

(***************************************************************************)
(* The renderer thread: one step of the caller starting an operation is    *)
(* allowed when the thread is idle.  The request channel is unbounded in   *)
(* the program; the model lets a new operation start only while at most    *)
(* MaxQueue requests are still unreceived by the worker.                   *)
(***************************************************************************)
CanStart == pc = "idle" /\ Len(device_tx) <= MaxQueue

Send(msgs) ==
    /\ device_tx' = device_tx \o msgs
    /\ sent' = sent \o msgs

\* The operation returns value r to its caller.
Done(r) ==
    /\ pc' = "done"
    /\ ret' = r

\* The caller takes the return value; the thread is idle again.
Return ==
    /\ pc = "done"
    /\ pc' = "idle"
    /\ call' = NoCall
    /\ loc' = NoLoc
    /\ ret' = NoRet
    /\ sent' = <<>>
    /\ rcvd' = 0
    /\ UNCHANGED <<resource, channel, errors, device_tx, swap_ack, state_frame, calls>>

\* Task failure (fail!, unwrap of a slot that is not Loaded): the thread dies.
Abort ==
    /\ pc' = "aborted"
    /\ UNCHANGED <<ret>>

(***************************************************************************)
(* Dispatcher::demand.  WaitOn is the slot the predicate of the demand at  *)
(* the current position inspects; Ready is fn_ready(&self.resource).       *)
(***************************************************************************)
Slot(kind, token) == [kind |-> kind, token |-> token]

\* The demands of draw before its first command, in order: prebind_mesh
\* (get_buffer of every attribute, then of the index buffer), prebind_bundle
\* (the buffers pass, then the texture pass) and the demand of the program.
Wait(at, kind, token) == [pc |-> at, slot |-> Slot(kind, token)]

MeshWaits(mesh, slice) ==
    [i \in 1..Len(mesh.attributes) |-> Wait("prebind_mesh", "buffers", mesh.attributes[i].buffer)]
    \o (IF slice.tag = "IndexSlice"
        THEN <<Wait("prebind_mesh", "buffers", slice.handle)>> ELSE <<>>)

RECURSIVE BlockWaits(_, _)
BlockWaits(data, i) ==
    IF i > Len(data) THEN <<>>
    ELSE (IF data[i].kind = "block"
          THEN <<Wait("prebind_bundle", "buffers", data[i].handle)>> ELSE <<>>)
         \o BlockWaits(data, i + 1)

RECURSIVE TextureWaits(_, _)
TextureWaits(data, i) ==
    IF i > Len(data) THEN <<>>
    ELSE (IF data[i].kind = "texture"
          THEN <<Wait("prebind_bundle", "textures", data[i].handle)>>
               \o (IF data[i].sampler # NoSampler
                   THEN <<Wait("prebind_bundle", "samplers", data[i].sampler)>> ELSE <<>>)
          ELSE <<>>)
         \o TextureWaits(data, i + 1)

BundleWaits(bundle) == BlockWaits(bundle.data, 1) \o TextureWaits(bundle.data, 1)

DrawWaits(c) ==
    MeshWaits(c.mesh, c.slice) \o BundleWaits(c.bundle)
    \o <<Wait("draw_program", "programs", c.bundle.program)>>

PrebindPcs == {"prebind_mesh", "prebind_bundle", "draw_program"}

WaitOn ==
    CASE pc = "update_buffer" -> Slot("buffers", call.handle)
      [] pc = "update_texture" -> Slot("textures", call.handle)
      [] pc = "get_shader_vs" -> Slot("shaders", loc.id + 0)
      [] pc = "get_shader_fs" -> Slot("shaders", loc.id + 1)
      [] pc = "bind_frame" -> Slot("frame_buffers", 0)
      [] pc = "get_common_array_buffer" -> Slot("array_buffers", 0)
      [] pc = "bundle_program" -> Slot("programs", call.prog)
      [] pc \in PrebindPcs -> DrawWaits(call)[loc.i].slot
      [] OTHER -> Slot("none", 0)

DemandPcs == {"update_buffer", "update_texture", "get_shader_vs", "get_shader_fs",
              "bind_frame", "get_common_array_buffer", "bundle_program"} \cup PrebindPcs

Get(res, s) == At(res[s.kind], s.token)

Ready == ~is_pending(Get(resource, WaitOn))

\* demand that takes the newest reply of the channel instead of the oldest.
demand_newest ==
    /\ pc \in DemandPcs
    /\ ~Ready
    /\ channel # <<>>
    /\ LET reply == channel[Len(channel)]
           r == process(resource, reply)
       IN  /\ channel' = SubSeq(channel, 1, Len(channel) - 1)
           /\ resource' = r.res
           /\ errors' = errors \o r.err
    /\ rcvd' = rcvd + 1
    /\ UNCHANGED <<device_tx, swap_ack, state_frame, pc, call, loc, ret, sent, calls>>

\* demand that receives a reply for another slot than the one its predicate
\* waits on and drops it unapplied.
demand_discards ==
    /\ pc \in DemandPcs
    /\ ~Ready
    /\ channel # <<>>
    /\ LET reply == Head(channel)
           r == process(resource, reply)
       IN  /\ channel' = Tail(channel)
           /\ IF Slot(reply.kind, reply.token) = WaitOn
              THEN resource' = r.res /\ errors' = errors \o r.err
              ELSE UNCHANGED <<resource, errors>>
    /\ rcvd' = rcvd + 1
    /\ UNCHANGED <<device_tx, swap_ack, state_frame, pc, call, loc, ret, sent, calls>>

\* demand that queues the error of a failed reply only when the reply is for
\* the slot its predicate waits on.
demand_own_errors ==
    /\ pc \in DemandPcs
    /\ ~Ready
    /\ channel # <<>>
    /\ LET reply == Head(channel)
           r == process(resource, reply)
       IN  /\ channel' = Tail(channel)
           /\ resource' = r.res
           /\ errors' = IF Slot(reply.kind, reply.token) = WaitOn
                         THEN errors \o r.err ELSE errors
    /\ rcvd' = rcvd + 1
    /\ UNCHANGED <<device_tx, swap_ack, state_frame, pc, call, loc, ret, sent, calls>>

\* One iteration of the while loop of demand: recv, process, push the error.
demand ==
    /\ pc \in DemandPcs
    /\ ~Ready
    /\ channel # <<>>
    /\ LET reply == Head(channel)
           r == process(resource, reply)
       IN  /\ channel' = Tail(channel)
           /\ resource' = r.res
           /\ errors' = errors \o r.err
    /\ rcvd' = rcvd + 1
    /\ UNCHANGED <<device_tx, swap_ack, state_frame, pc, call, loc, ret, sent, calls>>

(***************************************************************************)
(* Renderer::create_buffer, create_texture, create_sampler                 *)
(***************************************************************************)
\* CreateSimple that takes the token after the push.
CreateSimpleLate(op, kind, cmd, max) ==
    /\ CanStart
    /\ Len(resource[kind]) < max
    /\ LET token == Len(resource[kind]) + 1
       IN  /\ Send(<<Call(token, cmd, <<>>)>>)
           /\ resource' = Push(resource, kind, Pending)
           /\ call' = [op |-> op]
           /\ Done([tag |-> "token", v |-> token])
    /\ UNCHANGED <<channel, errors, swap_ack, state_frame, loc, rcvd, calls>>

CreateSimple(op, kind, cmd, max) ==
    /\ CanStart
    /\ Len(resource[kind]) < max
    /\ LET token == Len(resource[kind])
       IN  /\ Send(<<Call(token, cmd, <<>>)>>)
           /\ resource' = Push(resource, kind, Pending)
           /\ call' = [op |-> op]
           /\ Done([tag |-> "token", v |-> token])
    /\ UNCHANGED <<channel, errors, swap_ack, state_frame, loc, rcvd, calls>>

create_buffer == CreateSimple("create_buffer", "buffers", "CreateBuffer", MaxBuffers)

create_texture == CreateSimple("create_texture", "textures", "CreateTexture", MaxTextures)

create_sampler == CreateSimple("create_sampler", "samplers", "CreateSampler", MaxSamplers)

(***************************************************************************)
(* Renderer::update_buffer_vec / update_buffer_struct, update_texture      *)
(***************************************************************************)
Tokens(kind) == 0..(Len(resource[kind]) - 1)

update_buffer_start ==
    /\ CanStart
    /\ \E handle \in Tokens("buffers") :
          call' = [op |-> "update_buffer", handle |-> handle]
    /\ pc' = "update_buffer"
    /\ UNCHANGED <<resource, channel, errors, device_tx, swap_ack, state_frame,
                   loc, ret, sent, rcvd, calls>>

\* get_any: after the demand, unwrap the slot; unwrap of a Failed slot fails.
update_buffer ==
    /\ pc = "update_buffer"
    /\ Ready
    /\ LET slot == Get(resource, WaitOn)
       IN  IF slot.st = "Loaded"
           THEN /\ Send(<<Cast("UpdateBuffer", <<slot.v>>)>>)
                /\ Done([tag |-> "unit"])
           ELSE /\ Abort
                /\ UNCHANGED <<device_tx, sent>>
    /\ UNCHANGED <<resource, channel, errors, swap_ack, state_frame, call, loc, rcvd, calls>>

update_texture_start ==
    /\ CanStart
    /\ \E handle \in Tokens("textures") :
          call' = [op |-> "update_texture", handle |-> handle]
    /\ pc' = "update_texture"
    /\ UNCHANGED <<resource, channel, errors, device_tx, swap_ack, state_frame,
                   loc, ret, sent, rcvd, calls>>

update_texture ==
    /\ pc = "update_texture"
    /\ Ready
    /\ LET slot == Get(resource, WaitOn)
       IN  IF slot.st = "Loaded"
           THEN /\ Send(<<Cast("UpdateTexture", <<slot.v>>)>>)
                /\ Done([tag |-> "unit"])
           ELSE /\ Abort
                /\ UNCHANGED <<device_tx, sent>>
    /\ UNCHANGED <<resource, channel, errors, swap_ack, state_frame, call, loc, rcvd, calls>>

(***************************************************************************)
(* Renderer::create_program                                                *)
(***************************************************************************)
Vertex == 0

Fragment == 1

\* create_program_start that tags both shader Calls with the same token.
create_program_start_same ==
    /\ CanStart
    /\ LET id == Len(resource.shaders)
       IN  /\ resource' = Push(Push(resource, "shaders", Pending), "shaders", Pending)
           /\ Send(<<Call(id + 0, "CreateShader", <<Vertex>>),
                     Call(id + 0, "CreateShader", <<Fragment>>)>>)
           /\ loc' = [i |-> 0, id |-> id, entry |-> Len(resource.programs), h_vs |-> 0]
    /\ call' = [op |-> "create_program"]
    /\ pc' = "get_shader_vs"
    /\ UNCHANGED <<channel, errors, swap_ack, state_frame, ret, rcvd, calls>>

create_program_start ==
    /\ CanStart
    /\ LET id == Len(resource.shaders)
       IN  /\ resource' = Push(Push(resource, "shaders", Pending), "shaders", Pending)
           /\ Send(<<Call(id + 0, "CreateShader", <<Vertex>>),
                     Call(id + 1, "CreateShader", <<Fragment>>)>>)
           /\ loc' = [i |-> 0, id |-> id, entry |-> Len(resource.programs), h_vs |-> 0]
    /\ call' = [op |-> "create_program"]
    /\ pc' = "get_shader_vs"
    /\ UNCHANGED <<channel, errors, swap_ack, state_frame, ret, rcvd, calls>>

\* let h_vs = ds.get_shader(id + 0)
create_program_vs ==
    /\ pc = "get_shader_vs"
    /\ Ready
    /\ LET slot == Get(resource, WaitOn)
       IN  IF slot.st = "Loaded"
           THEN /\ loc' = [loc EXCEPT !.h_vs = slot.v]
                /\ pc' = "get_shader_fs"
                /\ UNCHANGED ret
           ELSE /\ Abort
                /\ UNCHANGED loc
    /\ UNCHANGED <<resource, channel, errors, device_tx, swap_ack, state_frame,
                   call, sent, rcvd, calls>>

\* create_program_fs that lists the two shader handles in the other order.
create_program_fs_swapped ==
    /\ pc = "get_shader_fs"
    /\ Ready
    /\ LET slot == Get(resource, WaitOn)
           token == Len(resource.programs)
       IN  IF slot.st = "Loaded"
           THEN /\ Send(<<Call(token, "CreateProgram", <<slot.v, loc.h_vs>>)>>)
                /\ resource' = Push(resource, "programs", Pending)
                /\ Done([tag |-> "token", v |-> token])
           ELSE /\ Abort
                /\ UNCHANGED <<device_tx, sent, resource>>
    /\ UNCHANGED <<channel, errors, swap_ack, state_frame, call, loc, rcvd, calls>>

\* let h_fs = ds.get_shader(id + 1), then the CreateProgram Call and the push
create_program_fs ==
    /\ pc = "get_shader_fs"
    /\ Ready
    /\ LET slot == Get(resource, WaitOn)
           token == Len(resource.programs)
       IN  IF slot.st = "Loaded"
           THEN /\ Send(<<Call(token, "CreateProgram", <<loc.h_vs, slot.v>>)>>)
                /\ resource' = Push(resource, "programs", Pending)
                /\ Done([tag |-> "token", v |-> token])
           ELSE /\ Abort
                /\ UNCHANGED <<device_tx, sent, resource>>
    /\ UNCHANGED <<channel, errors, swap_ack, state_frame, call, loc, rcvd, calls>>

(***************************************************************************)
(* The creation functions statement by statement.  create_buffer,          *)
(* create_texture, create_sampler and the program step of create_program   *)
(* take the token, send the Call and only then push the Pending slot; the  *)
(* worker may receive the Call and reply before the push.                  *)
(***************************************************************************)
\* CreateSend that takes the token of the slot after the one it will push.
CreateSendAhead(op, kind, cmd, max) ==
    /\ CanStart
    /\ Len(resource[kind]) < max
    /\ LET token == Len(resource[kind]) + 1
       IN  /\ Send(<<Call(token, cmd, <<>>)>>)
           /\ loc' = [i |-> 0, kind |-> kind, token |-> token]
    /\ call' = [op |-> op]
    /\ pc' = "create_push"
    /\ UNCHANGED <<resource, channel, errors, swap_ack, state_frame, ret, rcvd, calls>>

\* let token = table.len(); self.device_tx.send(device::Call(token, ..))
CreateSend(op, kind, cmd, max) ==
    /\ CanStart
    /\ Len(resource[kind]) < max
    /\ LET token == Len(resource[kind])
       IN  /\ Send(<<Call(token, cmd, <<>>)>>)
           /\ loc' = [i |-> 0, kind |-> kind, token |-> token]
    /\ call' = [op |-> op]
    /\ pc' = "create_push"
    /\ UNCHANGED <<resource, channel, errors, swap_ack, state_frame, ret, rcvd, calls>>

create_buffer_send == CreateSend("create_buffer", "buffers", "CreateBuffer", MaxBuffers)

create_texture_send == CreateSend("create_texture", "textures", "CreateTexture", MaxTextures)

create_sampler_send == CreateSend("create_sampler", "samplers", "CreateSampler", MaxSamplers)

\* let h_fs = ds.get_shader(id + 1); token = programs.len(); send(CreateProgram)
create_program_fs_send ==
    /\ pc = "get_shader_fs"
    /\ Ready
    /\ LET slot == Get(resource, WaitOn)
           token == Len(resource.programs)
       IN  IF slot.st = "Loaded"
           THEN /\ Send(<<Call(token, "CreateProgram", <<loc.h_vs, slot.v>>)>>)
                /\ loc' = [i |-> 0, kind |-> "programs", token |-> token]
                /\ pc' = "create_push"
                /\ UNCHANGED ret
           ELSE /\ Abort
                /\ UNCHANGED <<device_tx, sent, loc>>
    /\ UNCHANGED <<resource, channel, errors, swap_ack, state_frame, call, rcvd, calls>>

\* table.push(Pending); token
create_push ==
    /\ pc = "create_push"
    /\ resource' = Push(resource, loc.kind, Pending)
    /\ Done([tag |-> "token", v |-> loc.token])
    /\ UNCHANGED <<channel, errors, device_tx, swap_ack, state_frame, call, loc,
                   sent, rcvd, calls>>

(***************************************************************************)
(* Renderer::bundle_program.  The parameter object is the set of program   *)
(* parameters it binds, each identified by its location; the sink is       *)
(* seeded with the parameters the program declares.  create_link fails on  *)
(* a parameter the program does not declare, complete on a declared        *)
(* parameter left unbound.                                                 *)
(***************************************************************************)
ParamNames(meta) ==
    {meta.uniforms[i] : i \in DOMAIN meta.uniforms}
    \cup {meta.textures[i] : i \in DOMAIN meta.textures}

\* data.create_link(&mut sink): Ok(link) as <<link>>, Err as <<>>
create_link(data, meta) == IF data \subseteq ParamNames(meta) THEN <<data>> ELSE <<>>

\* sink.complete()
complete(meta, link) == ParamNames(meta) \subseteq link

bundle_program_start(progs, params) ==
    /\ CanStart
    /\ \E prog \in progs, data \in params :
          call' = [op |-> "bundle_program", prog |-> prog, data |-> data]
    /\ pc' = "bundle_program"
    /\ UNCHANGED <<resource, channel, errors, device_tx, swap_ack, state_frame,
                   loc, ret, sent, rcvd, calls>>

\* bundle_program that asks the sink for completeness before the link result.
bundle_program_missing_first ==
    /\ pc = "bundle_program"
    /\ Ready
    /\ LET slot == Get(resource, WaitOn)
       IN  IF slot.st = "Loaded"
           THEN LET link == create_link(call.data, slot.v)
                IN  IF ~complete(slot.v, call.data)
                    THEN Done([tag |-> "ErrorMissingParameter", v |-> 0])
                    ELSE IF link = <<>>
                    THEN Done([tag |-> "ErrorUnusedParameter", v |-> 0])
                    ELSE Done([tag |-> "Ok", v |-> [program |-> call.prog, data |-> call.data]])
           ELSE Done([tag |-> "ErrorBadProgram", v |-> 0])
    /\ UNCHANGED <<resource, channel, errors, device_tx, swap_ack, state_frame,
                   call, loc, sent, rcvd, calls>>

\* after the demand: match self.dispatcher.resource.programs[prog]
bundle_program ==
    /\ pc = "bundle_program"
    /\ Ready
    /\ LET slot == Get(resource, WaitOn)
       IN  IF slot.st = "Loaded"
           THEN LET link == create_link(call.data, slot.v)
                IN  IF link = <<>>
                    THEN Done([tag |-> "ErrorUnusedParameter", v |-> 0])
                    ELSE IF ~complete(slot.v, link[1])
                    THEN Done([tag |-> "ErrorMissingParameter", v |-> 0])
                    ELSE Done([tag |-> "Ok", v |-> [program |-> call.prog, data |-> call.data]])
           ELSE Done([tag |-> "ErrorBadProgram", v |-> 0])
    /\ UNCHANGED <<resource, channel, errors, device_tx, swap_ack, state_frame,
                   call, loc, sent, rcvd, calls>>

(***************************************************************************)
(* Renderer::errors                                                        *)
(***************************************************************************)
errors_call ==
    /\ CanStart
    /\ call' = [op |-> "errors"]
    /\ Done([tag |-> "errors", v |-> errors])
    /\ errors' = <<>>
    /\ UNCHANGED <<resource, channel, device_tx, swap_ack, state_frame, loc, sent, rcvd, calls>>

(***************************************************************************)
(* Renderer::end_frame                                                     *)
(***************************************************************************)
\* end_frame that sends SwapBuffers and returns without the receive.
end_frame_start_nowait ==
    /\ CanStart
    /\ Send(<<SwapBuffers>>)
    /\ call' = [op |-> "end_frame"]
    /\ Done([tag |-> "unit"])
    /\ UNCHANGED <<resource, channel, errors, swap_ack, state_frame, loc, rcvd, calls>>

end_frame_start ==
    /\ CanStart
    /\ Send(<<SwapBuffers>>)
    /\ call' = [op |-> "end_frame"]
    /\ pc' = "end_frame"
    /\ UNCHANGED <<resource, channel, errors, swap_ack, state_frame, loc, ret, rcvd, calls>>

\* self.swap_ack.recv()
end_frame ==
    /\ pc = "end_frame"
    /\ swap_ack > 0
    /\ swap_ack' = swap_ack - 1
    /\ rcvd' = rcvd + 1
    /\ Done([tag |-> "unit"])
    /\ UNCHANGED <<resource, channel, errors, device_tx, state_frame, call, loc, sent, calls>>

(***************************************************************************)
(* Renderer::clear                                                         *)
(***************************************************************************)
\* clear_start without the is_default test: always the common framebuffer.
clear_start_common(frames) ==
    /\ CanStart
    /\ \E frame \in frames :
          /\ call' = [op |-> "clear", frame |-> frame]
          /\ pc' = "bind_frame"
          /\ UNCHANGED <<device_tx, sent, ret>>
    /\ UNCHANGED <<resource, channel, errors, swap_ack, state_frame, loc, rcvd, calls>>

\* clear_start whose default branch stores the frame as the last one bound.
clear_start_stores(frames) ==
    /\ CanStart
    /\ \E frame \in frames :
          /\ call' = [op |-> "clear", frame |-> frame]
          /\ IF is_default(frame)
             THEN /\ Send(BindFrameDefault \o <<Cast("Clear", <<>>)>>)
                  /\ Done([tag |-> "unit"])
                  /\ state_frame' = frame
             ELSE /\ pc' = "bind_frame"
                  /\ UNCHANGED <<device_tx, sent, ret, state_frame>>
    /\ UNCHANGED <<resource, channel, errors, swap_ack, loc, rcvd, calls>>

clear_start(frames) ==
    /\ CanStart
    /\ \E frame \in frames :
          /\ call' = [op |-> "clear", frame |-> frame]
          /\ IF is_default(frame)
             THEN /\ Send(BindFrameDefault \o <<Cast("Clear", <<>>)>>)
                  /\ Done([tag |-> "unit"])
             ELSE /\ pc' = "bind_frame"
                  /\ UNCHANGED <<device_tx, sent, ret>>
    /\ UNCHANGED <<resource, channel, errors, swap_ack, state_frame, loc, rcvd, calls>>

\* bind_frame, non-default branch, after get_common_frame_buffer; then Clear
clear_bind_frame ==
    /\ pc = "bind_frame"
    /\ call.op = "clear"
    /\ Ready
    /\ LET slot == Get(resource, WaitOn)
       IN  IF slot.st = "Loaded"
           THEN /\ Send(BindFrameTargets(state_frame, call.frame, slot.v)
                        \o <<Cast("Clear", <<>>)>>)
                /\ state_frame' = call.frame
                /\ Done([tag |-> "unit"])
           ELSE /\ Abort
                /\ UNCHANGED <<device_tx, sent, state_frame>>
    /\ UNCHANGED <<resource, channel, errors, swap_ack, call, loc, rcvd, calls>>

(***************************************************************************)
(* Renderer::draw                                                          *)
(***************************************************************************)
draw_start(meshes, slices, frames, bundles) ==
    /\ CanStart
    /\ \E mesh \in meshes, slice \in slices, frame \in frames, bundle \in bundles :
          LET c == [op |-> "draw", mesh |-> mesh, slice |-> slice,
                    frame |-> frame, bundle |-> bundle]
          IN  /\ call' = c
              /\ pc' = DrawWaits(c)[1].pc
    /\ loc' = [i |-> 1]
    /\ UNCHANGED <<resource, channel, errors, device_tx, swap_ack, state_frame,
                   ret, sent, rcvd, calls>>

\* The demand at position loc.i returned: go on to the next one.
NextWait ==
    /\ loc' = [loc EXCEPT !.i = @ + 1]
    /\ pc' = DrawWaits(call)[loc.i + 1].pc
    /\ UNCHANGED <<device_tx, sent, ret>>

\* prebind_mesh that does not wait: a buffer still Pending is passed over.
prebind_mesh_nowait ==
    /\ pc = "prebind_mesh"
    /\ IF Get(resource, WaitOn).st # "Failed"
       THEN NextWait
       ELSE /\ Abort
            /\ UNCHANGED <<device_tx, sent, loc>>
    /\ UNCHANGED <<resource, channel, errors, swap_ack, state_frame, call, rcvd, calls>>

\* prebind_mesh: self.dispatcher.get_buffer(..), a demand and an unwrap
prebind_mesh ==
    /\ pc = "prebind_mesh"
    /\ Ready
    /\ IF Get(resource, WaitOn).st = "Loaded"
       THEN NextWait
       ELSE /\ Abort
            /\ UNCHANGED <<device_tx, sent, loc>>
    /\ UNCHANGED <<resource, channel, errors, swap_ack, state_frame, call, rcvd, calls>>

\* prebind_bundle: dp.demand(..) only
prebind_bundle ==
    /\ pc = "prebind_bundle"
    /\ Ready
    /\ NextWait
    /\ UNCHANGED <<resource, channel, errors, swap_ack, state_frame, call, rcvd, calls>>

\* draw_program without the demand: the state commands are sent at once.
draw_program_nowait ==
    /\ pc = "draw_program"
    /\ Send(<<Cast("SetPrimitiveState", <<>>), Cast("SetDepthStencilState", <<>>),
              Cast("SetBlendState", <<>>)>>)
    /\ pc' = "get_common_array_buffer"
    /\ UNCHANGED <<resource, channel, errors, swap_ack, state_frame, call, loc, ret,
                   rcvd, calls>>

\* the demand of the program, then the three state commands
draw_program ==
    /\ pc = "draw_program"
    /\ Ready
    /\ Send(<<Cast("SetPrimitiveState", <<>>), Cast("SetDepthStencilState", <<>>),
              Cast("SetBlendState", <<>>)>>)
    /\ pc' = "get_common_array_buffer"
    /\ UNCHANGED <<resource, channel, errors, swap_ack, state_frame, call, loc, ret,
                   rcvd, calls>>

\* The rest of draw once the frame is bound: program, bundle, mesh, draw command.
DrawCommand(slice, res) ==
    IF slice.tag = "VertexSlice"
    THEN Res(<<Cast("Draw", <<slice.start, slice.end>>)>>, "Ok", 0)
    ELSE LET slot == At(res.buffers, slice.handle)
         IN  IF slot.st # "Loaded" THEN Res(<<>>, "abort", 0)
             ELSE Res(<<Cast("BindIndex", <<slot.v>>),
                        Cast("DrawIndexed", <<slice.start, slice.end>>)>>, "Ok", 0)

\* DrawTail that goes on to the draw command after a mesh error.
DrawTailDrawsAnyway(c, res) ==
    LET slot == At(res.programs, c.bundle.program)
    IN  IF slot.st = "Pending" THEN Res(<<>>, "abort", 0)
        ELSE IF slot.st = "Failed" THEN Res(<<>>, "ErrorProgram", 0)
        ELSE LET b == bind_shader_bundle(slot.v, c.bundle, res)
             IN  IF b.tag # "Ok" THEN b
                 ELSE LET m == bind_mesh(c.mesh, slot.v, res)
                          d == DrawCommand(c.slice, res)
                      IN  IF m.tag # "Ok" THEN Res(b.cmds \o m.cmds \o d.cmds, m.tag, m.v)
                          ELSE Res(b.cmds \o m.cmds \o d.cmds, d.tag, d.v)

DrawTail(c, res) ==
    LET slot == At(res.programs, c.bundle.program)
    IN  IF slot.st = "Pending" THEN Res(<<>>, "abort", 0)
        ELSE IF slot.st = "Failed" THEN Res(<<>>, "ErrorProgram", 0)
        ELSE LET b == bind_shader_bundle(slot.v, c.bundle, res)
             IN  IF b.tag # "Ok" THEN b
                 ELSE LET m == bind_mesh(c.mesh, slot.v, res)
                      IN  IF m.tag # "Ok" THEN Res(b.cmds \o m.cmds, m.tag, m.v)
                          ELSE LET d == DrawCommand(c.slice, res)
                               IN  Res(b.cmds \o m.cmds \o d.cmds, d.tag, d.v)

Finish(cmds, tail) ==
    /\ Send(cmds \o tail.cmds)
    /\ IF tail.tag = "abort" THEN Abort ELSE Done([tag |-> tail.tag, v |-> tail.v])

\* get_common_array_buffer, BindArrayBuffer, and bind_frame up to its demand
draw_array_buffer ==
    /\ pc = "get_common_array_buffer"
    /\ Ready
    /\ LET slot == Get(resource, WaitOn)
       IN  IF slot.st # "Loaded"
           THEN /\ Abort
                /\ UNCHANGED <<device_tx, sent>>
           ELSE IF is_default(call.frame)
           THEN Finish(<<Cast("BindArrayBuffer", <<slot.v>>)>> \o BindFrameDefault,
                       DrawTail(call, resource))
           ELSE /\ Send(<<Cast("BindArrayBuffer", <<slot.v>>)>>)
                /\ pc' = "bind_frame"
                /\ UNCHANGED ret
    /\ UNCHANGED <<resource, channel, errors, swap_ack, state_frame, call, loc, rcvd, calls>>

\* bind_frame, non-default branch, after get_common_frame_buffer; then the rest
draw_bind_frame ==
    /\ pc = "bind_frame"
    /\ call.op = "draw"
    /\ Ready
    /\ LET slot == Get(resource, WaitOn)
       IN  IF slot.st # "Loaded"
           THEN /\ Abort
                /\ UNCHANGED <<device_tx, sent, state_frame>>
           ELSE /\ Finish(BindFrameTargets(state_frame, call.frame, slot.v),
                          DrawTail(call, resource))
                /\ state_frame' = call.frame
    /\ UNCHANGED <<resource, channel, errors, swap_ack, call, loc, rcvd, calls>>

(***************************************************************************)
(* The device worker (environment): it receives the requests in order,     *)
(* replies exactly once to every Call, in any order, and acknowledges      *)
(* every SwapBuffers.  When the renderer task has failed its channel ends  *)
(* are dropped and the worker stops.  The reply channel is unbounded in    *)
(* the program; the model lets the worker run a bounded number of replies   *)
(* ahead of the renderer.                                                  *)
(***************************************************************************)
KindOf(cmd) ==
    CASE cmd = "CreateBuffer" -> "buffers"
      [] cmd = "CreateArrayBuffer" -> "array_buffers"
      [] cmd = "CreateShader" -> "shaders"
      [] cmd = "CreateProgram" -> "programs"
      [] cmd = "CreateTexture" -> "textures"
      [] cmd = "CreateSampler" -> "samplers"
      [] cmd = "CreateFrameBuffer" -> "frame_buffers"

KindBase(kind) ==
    CASE kind = "buffers" -> 10
      [] kind = "array_buffers" -> 20
      [] kind = "shaders" -> 30
      [] kind = "programs" -> 40
      [] kind = "textures" -> 50
      [] kind = "samplers" -> 60
      [] kind = "frame_buffers" -> 70

\* The handle the device gives to the object created for a token.
DeviceHandle(kind, token) == KindBase(kind) + token

WorkerRecv ==
    /\ pc # "aborted"
    /\ device_tx # <<>>
    /\ LET m == Head(device_tx)
       IN  /\ device_tx' = Tail(device_tx)
           /\ calls' = IF m.tag = "Call"
                       THEN calls \cup {Slot(KindOf(m.cmd), m.token)}
                       ELSE calls
           /\ swap_ack' = IF m.tag = "SwapBuffers" THEN swap_ack + 1 ELSE swap_ack
    /\ UNCHANGED <<resource, channel, errors, state_frame, pc, call, loc, ret, sent, rcvd>>

\* device::shade::ProgramMeta of a linked program: its name, the attributes it
\* declares, and the locations of its uniforms and of its texture uniforms.
Attribute(name, base_type, location) ==
    [name |-> name, base_type |-> base_type, location |-> location]

ProgramMeta(token) ==
    [name |-> DeviceHandle("programs", token),
     attributes |-> <<Attribute(1, 1, 0), Attribute(2, 2, 1)>>,
     uniforms |-> [i \in 1..MaxItems |-> 80 + i],
     textures |-> [i \in 1..MaxItems |-> 90 + i]]

ReplyValue(kind, token) ==
    IF kind = "programs" THEN ProgramMeta(token) ELSE DeviceHandle(kind, token)

WorkerReply(ahead) ==
    /\ pc # "aborted"
    /\ Len(channel) < ahead
    /\ \E c \in calls, ok \in BOOLEAN :
          /\ channel' = Append(channel,
                Reply(c.kind, c.token, ok, IF ok THEN ReplyValue(c.kind, c.token) ELSE 0))
          /\ calls' = calls \ {c}
    /\ UNCHANGED <<resource, errors, device_tx, swap_ack, state_frame,
                   pc, call, loc, ret, sent, rcvd>>

(***************************************************************************)
(* The arguments a caller may pass.                                        *)
(***************************************************************************)
SeqsUpTo(S, n) == UNION {[1..k -> S] : k \in 0..n}

Frames == [colors : [1..MaxColorTargets -> 0..MaxPlane],
           depth : 0..MaxPlane, stencil : 0..MaxPlane]

VertexSlice(start, end) == [tag |-> "VertexSlice", handle |-> 0, start |-> start, end |-> end]

IndexSlice(handle, start, end) ==
    [tag |-> "IndexSlice", handle |-> handle, start |-> start, end |-> end]

Slices == {VertexSlice(0, 3)} \cup {IndexSlice(h, 0, 3) : h \in Tokens("buffers")}

MeshAttribute(name, buffer, elem_type) ==
    [name |-> name, buffer |-> buffer, elem_type |-> elem_type]

Mesh(attributes) == [attributes |-> attributes]

Meshes == {Mesh(a) : a \in SeqsUpTo({MeshAttribute(n, b, t) :
                                        n \in 1..2, b \in Tokens("buffers"), t \in 1..2},
                                    MaxAttributes)}

Item(kind, handle, sampler) ==
    [kind |-> kind, var |-> 0, handle |-> handle, sampler |-> sampler, value |-> 0]

Items == {Item("uniform", 0, NoSampler)}
         \cup {Item("block", b, NoSampler) : b \in Tokens("buffers")}
         \cup {Item("texture", t, sm) : t \in Tokens("textures"),
                                        sm \in {NoSampler} \cup Tokens("samplers")}

\* The variable of an item is its rank among the items of its kind.
Numbered(data) ==
    [i \in 1..Len(data) |->
        [data[i] EXCEPT !.var = Cardinality({j \in 1..(i - 1) : data[j].kind = data[i].kind})]]

Bundle(program, data) == [program |-> program, data |-> data]

Bundles == {Bundle(p, Numbered(d)) : p \in Tokens("programs"), d \in SeqsUpTo(Items, MaxItems)}

\* Parameter objects: any set of the parameters a program declares and of
\* one more that no program declares.
Undeclared == 0

Params == SUBSET (ParamNames(ProgramMeta(0)) \cup {Undeclared})

\* The tokens the caller has created so far.
Created == Len(resource.buffers) + Len(resource.textures) + Len(resource.samplers)

(***************************************************************************)
(* A caller that creates and updates buffers, textures and samplers,       *)
(* collects the device errors and ends frames.                             *)
(***************************************************************************)
Next ==
    \/ Created < MaxCreated /\ create_buffer
    \/ Created < MaxCreated /\ create_texture
    \/ Created < MaxCreated /\ create_sampler
    \/ update_buffer_start
    \/ update_buffer
    \/ update_texture_start
    \/ update_texture
    \/ errors_call
    \/ end_frame_start
    \/ end_frame
    \/ demand
    \/ Return
    \/ WorkerRecv
    \/ WorkerReply(MaxChannel)

Spec == Init /\ [][Next]_vars

(***************************************************************************)
(* A caller that only clears frames.                                       *)
(***************************************************************************)
NextFrame ==
    \/ clear_start(Frames)
    \/ clear_bind_frame
    \/ demand
    \/ Return
    \/ WorkerRecv
    \/ WorkerReply(MaxChannel)

SpecFrame == Init /\ [][NextFrame]_vars

(***************************************************************************)
(* bind_shader_bundle on every resolved cache.  The renderer starts from a *)
(* state in which every resource has been created and every reply applied  *)
(* (each slot Loaded or Failed, both shaders Loaded since create_program   *)
(* returned) and the error queue drained; the caller draws a mesh that     *)
(* matches the program into the default frame with any bundle.             *)
(***************************************************************************)
ResolvedTable(kind, n) ==
    {[t \in 1..n |-> IF t \in F THEN Failed ELSE Loaded(ReplyValue(kind, t - 1))] :
        F \in SUBSET (1..n)}

ResolvedCaches ==
    {[buffers |-> b, array_buffers |-> a, shaders |-> s, programs |-> p,
      textures |-> t, samplers |-> m, frame_buffers |-> f] :
        b \in ResolvedTable("buffers", MaxBuffers),
        a \in ResolvedTable("array_buffers", 1),
        s \in {[i \in 1..2 |-> Loaded(ReplyValue("shaders", i - 1))]},
        p \in ResolvedTable("programs", 1),
        t \in ResolvedTable("textures", MaxTextures),
        m \in ResolvedTable("samplers", MaxSamplers),
        f \in ResolvedTable("frame_buffers", 1)}

InitResolved ==
    /\ resource \in ResolvedCaches
    /\ device_tx = <<>>
    /\ channel = <<>>
    /\ errors = <<>>
    /\ swap_ack = 0
    /\ state_frame = FrameNew
    /\ pc = "idle"
    /\ call = NoCall
    /\ loc = NoLoc
    /\ ret = NoRet
    /\ sent = <<>>
    /\ rcvd = 0
    /\ calls = {}

FullMesh(buffer) == Mesh(<<MeshAttribute(1, buffer, 1), MeshAttribute(2, buffer, 2)>>)

NextBundle ==
    \/ draw_start({FullMesh(0)}, {VertexSlice(0, 3)}, {FrameNew}, Bundles)
    \/ prebind_mesh
    \/ prebind_bundle
    \/ draw_program
    \/ draw_array_buffer
    \/ Return
    \/ WorkerRecv

SpecBundle == InitResolved /\ [][NextBundle]_vars

(***************************************************************************)
(* A caller that creates its resources kind by kind (a buffer, a texture,  *)
(* a sampler, then the program) and then draws, while the worker replies.  *)
(* The bundle binds one uniform block and one texture with its sampler.    *)
(***************************************************************************)
NoneOf(kinds) == \A k \in kinds : Len(resource[k]) = 0

DrawMeshes == {FullMesh(b) : b \in Tokens("buffers")}
              \cup {Mesh(<<MeshAttribute(1, b, 1)>>) : b \in Tokens("buffers")}

DrawFrames == {FrameNew, [FrameNew EXCEPT !.depth = 1]}

DrawBundles ==
    {Bundle(p, Numbered(<<Item("block", b, NoSampler), Item("texture", t, sm)>>)) :
        p \in Tokens("programs"), b \in Tokens("buffers"),
        t \in Tokens("textures"), sm \in Tokens("samplers")}

NextDraw ==
    \/ NoneOf({"buffers", "textures", "samplers", "programs"}) /\ create_buffer
    \/ NoneOf({"textures", "samplers", "programs"}) /\ create_texture
    \/ NoneOf({"samplers", "programs"}) /\ create_sampler
    \/ NoneOf({"programs"}) /\ create_program_start
    \/ create_program_vs
    \/ create_program_fs
    \/ draw_start(DrawMeshes, Slices, DrawFrames, DrawBundles)
    \/ prebind_mesh
    \/ prebind_bundle
    \/ draw_program
    \/ draw_array_buffer
    \/ draw_bind_frame
    \/ demand
    \/ Return
    \/ WorkerRecv
    \/ WorkerReply(DrawChannel)

SpecDraw == Init /\ [][NextDraw]_vars

(***************************************************************************)
(* A caller that creates programs and bundles them with parameters.        *)
(***************************************************************************)
NextProgram ==
    \/ Len(resource.programs) < MaxLinked /\ create_program_start
    \/ create_program_vs
    \/ create_program_fs
    \/ bundle_program_start(Tokens("programs"), Params)
    \/ bundle_program
    \/ demand
    \/ Return
    \/ WorkerRecv
    \/ WorkerReply(MaxChannel)

SpecProgram == Init /\ [][NextProgram]_vars

(***************************************************************************)
(* bind_mesh on every mesh.  From a resolved cache the caller draws any    *)
(* mesh of up to MaxAttributes attributes with a bundle that has no        *)
(* parameter, so that the draw reaches bind_mesh whenever its program is   *)
(* Loaded.                                                                 *)
(***************************************************************************)
NextMesh ==
    \/ draw_start(Meshes, {VertexSlice(0, 3)}, {FrameNew}, {Bundle(0, <<>>)})
    \/ prebind_mesh
    \/ draw_program
    \/ draw_array_buffer
    \/ Return
    \/ WorkerRecv

SpecMesh == InitResolved /\ [][NextMesh]_vars

(***************************************************************************)
(* A caller that creates and updates buffers, with a renderer thread that  *)
(* keeps running while it can (recv returns when a reply is there) and a   *)
(* worker that eventually receives every request and eventually replies to *)
(* every Call it holds.                                                    *)
(***************************************************************************)
NextLive ==
    \/ create_buffer
    \/ update_buffer_start
    \/ update_buffer
    \/ demand
    \/ Return
    \/ WorkerRecv
    \/ WorkerReply(MaxChannel)

SpecLive ==
    /\ Init /\ [][NextLive]_vars
    /\ WF_vars(demand) /\ WF_vars(update_buffer)
    /\ WF_vars(WorkerRecv) /\ WF_vars(WorkerReply(MaxChannel))

(***************************************************************************)
(* A caller of the creation functions taken statement by statement, kind   *)
(* by kind (a texture, a sampler, a buffer, then a program), that also      *)
(* updates the buffer; its demands drain the replies of every kind.        *)
(***************************************************************************)
NextRace ==
    \/ NoneOf({"textures", "samplers", "buffers", "programs"}) /\ create_texture_send
    \/ NoneOf({"samplers", "buffers", "programs"}) /\ create_sampler_send
    \/ NoneOf({"buffers", "programs"}) /\ create_buffer_send
    \/ NoneOf({"programs"}) /\ create_program_start
    \/ create_program_vs
    \/ create_program_fs_send
    \/ create_push
    \/ update_buffer_start
    \/ update_buffer
    \/ demand
    \/ Return
    \/ WorkerRecv
    \/ WorkerReply(DrawChannel)

SpecRace == Init /\ [][NextRace]_vars

(***************************************************************************)
(* Properties.                                                             *)
(***************************************************************************)
\* The requests appended to sent by the step.
Out == SubSeq(sent', Len(sent) + 1, Len(sent'))

Count(seq, Test(_)) == Cardinality({k \in 1..Len(seq) : Test(seq[k])})

IsTarget(m, target) ==
    m.cmd = "BindTarget" /\ m.args[1] = target[1] /\ m.args[2] = target[2]

\* Exactly one BindTarget(target, new) when cur # new, none for that target otherwise.
TargetDiffed(out, target, cur, new) ==
    /\ Count(out, LAMBDA m : IsTarget(m, target)) = (IF cur # new THEN 1 ELSE 0)
    /\ \A k \in 1..Len(out) : IsTarget(out[k], target) => out[k].args[3] = new

\* C7: bind_frame with a non-default frame emits BindFrameBuffer(common
\* framebuffer), then exactly one BindTarget(color i, new[i]) for each color
\* index whose attachment differs from the stored frame's and none for the equal
\* ones, one BindTarget(depth) iff depth differs, one BindTarget(stencil) iff
\* stencil differs, and afterwards the stored frame is the requested frame.
C7_BindFrameDiff ==
    [][(pc = "bind_frame" /\ pc' = "done") =>
        LET new == call.frame
            cur == state_frame
            out == Out
        IN  /\ ~is_default(new)
            /\ Len(out) >= 1
            /\ out[1] = Cast("BindFrameBuffer", <<At(resource.frame_buffers, 0).v>>)
            /\ At(resource.frame_buffers, 0).st = "Loaded"
            /\ \A i \in 1..MaxColorTargets :
                  TargetDiffed(out, <<0, i - 1>>, cur.colors[i], new.colors[i])
            /\ TargetDiffed(out, <<1, 0>>, cur.depth, new.depth)
            /\ TargetDiffed(out, <<2, 0>>, cur.stencil, new.stencil)
            /\ \A k \in 2..Len(out) : out[k].cmd \in {"BindTarget", "Clear"}
            /\ state_frame' = new]_vars

\* A clear of a frame whose color 0 is attached, that bound color 1 only.
C7_Witness ==
    /\ pc = "done" /\ call.op = "clear"
    /\ call.frame.colors[1] # PlaneEmpty
    /\ Len(sent) = 3
    /\ sent[2] = Cast("BindTarget", <<0, 1, call.frame.colors[2]>>)
    /\ state_frame = call.frame

\* C8: bind_frame with the default-target frame emits exactly one
\* BindFrameBuffer carrying the fixed default handle and no BindTarget, whatever
\* frame was bound before, and receives nothing from the reply channel, even
\* while the common framebuffer slot is still Pending.
C8_DefaultFrame ==
    (call.op = "clear" /\ is_default(call.frame)) =>
        /\ pc = "done"
        /\ rcvd = 0
        /\ sent = <<Cast("BindFrameBuffer", <<0>>), Cast("Clear", <<>>)>>

\* A default clear done while the framebuffer reply waits unread in the channel.
C8_Witness ==
    /\ pc = "done" /\ call.op = "clear" /\ is_default(call.frame)
    /\ is_pending(At(resource.frame_buffers, 0))
    /\ \E k \in 1..Len(channel) : channel[k].kind = "frame_buffers"

\* The items of the drawn bundle of a kind whose resource is not Loaded.
BadItems(kind, table) ==
    {k \in 1..Len(call.bundle.data) :
        /\ call.bundle.data[k].kind = kind
        /\ At(resource[table], call.bundle.data[k].handle).st # "Loaded"}

\* draw returned, and it had called bind_shader_bundle.
BundleReturned ==
    /\ pc = "done" /\ call.op = "draw"
    /\ At(resource.programs, call.bundle.program).st = "Loaded"

\* C9: bind_shader_bundle returns the block error whenever at least one
\* uniform-block buffer is not Loaded, even if a texture is not Loaded too; the
\* texture error only when every block was bound and some texture is not
\* Loaded; success only when nothing failed.
C9_BundlePriority ==
    BundleReturned =>
        LET blocks == BadItems("block", "buffers")
            textures == BadItems("texture", "textures")
        IN  /\ (ret.tag = "ErrorBundleBlock") <=> (blocks # {})
            /\ (ret.tag = "ErrorBundleTexture") <=> (blocks = {} /\ textures # {})
            /\ (ret.tag \notin {"ErrorBundleBlock", "ErrorBundleTexture"})
                  <=> (blocks = {} /\ textures = {})

\* A bundle with a block and a texture that both failed gave the block error.
C9_Witness ==
    /\ BundleReturned
    /\ ret.tag = "ErrorBundleBlock"
    /\ BadItems("texture", "textures") # {}

Min(S) == CHOOSE x \in S : \A y \in S : x <= y

\* C10: the block error names the first block, in traversal order, whose
\* buffer is not Loaded, and the texture error the first texture that is not
\* Loaded; later failures do not replace the recorded one.
C10_FirstFailure ==
    BundleReturned =>
        /\ ret.tag = "ErrorBundleBlock" =>
              ret.v = call.bundle.data[Min(BadItems("block", "buffers"))].var
        /\ ret.tag = "ErrorBundleTexture" =>
              ret.v = call.bundle.data[Min(BadItems("texture", "textures"))].var

\* Every slot the arguments of the draw in progress refer to.
DrawRefs ==
    {Slot("buffers", call.mesh.attributes[k].buffer) : k \in 1..Len(call.mesh.attributes)}
    \cup (IF call.slice.tag = "IndexSlice" THEN {Slot("buffers", call.slice.handle)} ELSE {})
    \cup {Slot("buffers", call.bundle.data[k].handle) :
            k \in {j \in 1..Len(call.bundle.data) : call.bundle.data[j].kind = "block"}}
    \cup {Slot("textures", call.bundle.data[k].handle) :
            k \in {j \in 1..Len(call.bundle.data) : call.bundle.data[j].kind = "texture"}}
    \cup {Slot("samplers", call.bundle.data[k].sampler) :
            k \in {j \in 1..Len(call.bundle.data) :
                      call.bundle.data[j].kind = "texture"
                      /\ call.bundle.data[j].sampler # NoSampler}}
    \cup {Slot("programs", call.bundle.program)}

\* C5: draw sends no command until every mesh attribute buffer, the index
\* buffer of an indexed slice, every uniform-block buffer, texture and sampler
\* of the bundle, and the bundle's program are non-pending; while the buffer of
\* the mesh's vertex attributes is Pending the draw stays in prebind_mesh and
\* has sent nothing.
C5_NoCastBeforeResolved ==
    call.op = "draw" =>
        /\ (\E s \in DrawRefs : is_pending(Get(resource, s))) =>
              (sent = <<>> /\ pc \in {"prebind_mesh", "prebind_bundle", "draw_program", "aborted"})
        /\ (call.mesh.attributes # <<>>
            /\ is_pending(At(resource.buffers, call.mesh.attributes[1].buffer))) =>
              (sent = <<>> /\ pc = "prebind_mesh" /\ loc.i = 1 /\ ret = NoRet)

\* A draw waiting in prebind_mesh for its vertex buffer with nothing to
\* receive, after it has applied replies for other tokens.
C5_Witness ==
    /\ call.op = "draw" /\ pc = "prebind_mesh"
    /\ is_pending(At(resource.buffers, call.mesh.attributes[1].buffer))
    /\ channel = <<>>
    /\ rcvd > 0
    /\ sent = <<>>

Cmds(seq) == {seq[k].cmd : k \in 1..Len(seq)}

IsSuffix(s, t) == Len(s) <= Len(t) /\ s = SubSeq(t, Len(t) - Len(s) + 1, Len(t))

\* C6: whenever draw returns an error it has sent no Draw, DrawIndexed or
\* BindIndex; a bad-program error comes before BindProgram, a bundle error
\* before any BindAttribute; the state, array-buffer and frame-bind commands
\* the call sent stay in the request channel.
C6_ErrorBeforeDraw ==
    (pc = "done" /\ call.op = "draw" /\ ret.tag # "Ok") =>
        /\ ret.tag \in {"ErrorProgram", "ErrorBundleBlock", "ErrorBundleTexture",
                        "ErrorAttributeMissing", "ErrorAttributeType"}
        /\ Cmds(sent) \cap {"Draw", "DrawIndexed", "BindIndex"} = {}
        /\ ret.tag = "ErrorProgram" => "BindProgram" \notin Cmds(sent)
        /\ ret.tag \in {"ErrorBundleBlock", "ErrorBundleTexture"} =>
              "BindAttribute" \notin Cmds(sent)
        /\ Len(sent) >= 5
        /\ [k \in 1..5 |-> sent[k].cmd] =
              <<"SetPrimitiveState", "SetDepthStencilState", "SetBlendState",
                "BindArrayBuffer", "BindFrameBuffer">>
        /\ IsSuffix(device_tx, sent) \/ IsSuffix(sent, device_tx)

\* A draw that returned a mesh error after binding the program and an attribute.
C6_Witness ==
    /\ pc = "done" /\ call.op = "draw"
    /\ ret.tag = "ErrorAttributeMissing"
    /\ {"BindProgram", "BindAttribute", "BindTarget"} \subseteq Cmds(sent)
    /\ IsSuffix(sent, device_tx)

\* The predicate of the demand the renderer is executing, on cache res.
Predicate(res) ==
    CASE pc = "update_buffer" -> ~is_pending(At(res.buffers, call.handle))
      [] pc = "update_texture" -> ~is_pending(At(res.textures, call.handle))
      [] pc = "get_shader_vs" -> ~is_pending(At(res.shaders, loc.id))
      [] pc = "get_shader_fs" -> ~is_pending(At(res.shaders, loc.id + 1))
      [] OTHER -> TRUE

InDemand == pc \in {"update_buffer", "update_texture", "get_shader_vs", "get_shader_fs"}

\* The slot of a token as a reply leaves it.
Applied(reply) == IF reply.ok THEN Loaded(reply.v) ELSE Failed

\* C1: demand returns only in a state where its predicate holds; while the
\* predicate is false every iteration consumes exactly one reply, the oldest of
\* the channel, and applies it to the cache; when the predicate holds no reply
\* is consumed.
C1_Demand ==
    [][/\ (InDemand /\ pc' # pc) => (Predicate(resource) /\ channel' = channel
                                     /\ resource.buffers = resource'.buffers
                                     /\ resource.textures = resource'.textures)
       /\ (Len(channel') < Len(channel)) =>
             /\ InDemand /\ ~Predicate(resource)
             /\ pc' = pc
             /\ channel' = Tail(channel)
             /\ rcvd' = rcvd + 1
             /\ Len(resource'[Head(channel).kind]) = Len(resource[Head(channel).kind])
             /\ At(resource'[Head(channel).kind], Head(channel).token) = Applied(Head(channel))
       /\ (InDemand /\ ~Predicate(resource) /\ <<pc, call, errors, rcvd>>' # <<pc, call, errors, rcvd>>)
             => (channel # <<>> /\ channel' = Tail(channel))]_vars

\* An update_buffer whose demand returned after two iterations.
C1_Witness ==
    /\ pc = "update_buffer" /\ Predicate(resource)
    /\ rcvd = 2
    /\ channel # <<>>

\* C3: create_buffer, create_texture and create_sampler return the length of
\* the kind's table before the call, append one Pending slot to it, send one
\* Call tagged with the returned token and receive nothing; a fresh renderer
\* holds array-buffer 0 and framebuffer 0 Pending with one Call each.
CreateCmd(kind) ==
    CASE kind = "buffers" -> "CreateBuffer"
      [] kind = "textures" -> "CreateTexture"
      [] kind = "samplers" -> "CreateSampler"

C3_Fresh ==
    call.op = "new" =>
        /\ resource.array_buffers = <<Pending>> /\ resource.frame_buffers = <<Pending>>
        /\ \A k \in Kinds \ {"array_buffers", "frame_buffers"} : resource[k] = <<>>
        /\ sent = <<Call(0, "CreateArrayBuffer", <<>>), Call(0, "CreateFrameBuffer", <<>>)>>

C3_Step ==
    \A kind \in {"buffers", "textures", "samplers"} :
        Len(resource'[kind]) # Len(resource[kind]) =>
            /\ resource'[kind] = Append(resource[kind], Pending)
            /\ \A k \in Kinds \ {kind} : resource'[k] = resource[k]
            /\ pc = "idle" /\ pc' = "done"
            /\ ret' = [tag |-> "token", v |-> Len(resource[kind])]
            /\ sent' = <<Call(Len(resource[kind]), CreateCmd(kind), <<>>)>>
            /\ device_tx' = device_tx \o sent'
            /\ channel' = channel /\ rcvd' = 0

C3_Create == []C3_Fresh /\ [][C3_Step]_vars

\* The second create_buffer returned token 1 while a reply waited unread.
C3_Witness ==
    /\ pc = "done" /\ call.op = "create_buffer"
    /\ ret.v = 1
    /\ resource.buffers = <<Pending, Pending>>
    /\ channel # <<>>

\* C2: for every kind and token, the slot is Pending when appended and changes
\* at most once, to Loaded or to Failed; once Loaded or Failed it never changes
\* again and never returns to Pending.
C2_Step ==
    \A k \in Kinds :
        /\ Len(resource'[k]) >= Len(resource[k])
        /\ \A t \in (Len(resource[k]) + 1)..Len(resource'[k]) : resource'[k][t].st = "Pending"
        /\ \A t \in 1..Len(resource[k]) :
              /\ resource'[k][t].st \in {"Pending", "Loaded", "Failed"}
              /\ resource[k][t].st # "Pending" => resource'[k][t] = resource[k][t]

C2_OneShot == [][C2_Step]_vars

\* Every kind has a resolved slot, some Loaded and some Failed.
C2_Witness ==
    /\ \A k \in Kinds : \E t \in 1..Len(resource[k]) : resource[k][t].st # "Pending"
    /\ At(resource.buffers, 0).st = "Failed"
    /\ At(resource.programs, 0).st = "Loaded"
    /\ At(resource.textures, 0).st = "Failed"

\* C4: create_program allocates the shader tokens id and id+1, id the length
\* of the shader table on entry, and sends their two CreateShader Calls; it
\* sends the CreateProgram Call only when both shader slots are resolved, with
\* the two handles in vertex-then-fragment order; the token it returns is the
\* length of the program table on entry and its slot is Pending until a program
\* reply is applied.
C4_Start ==
    (call'.op = "create_program" /\ call.op # "create_program") =>
        LET id == Len(resource.shaders)
        IN  /\ resource'.shaders = resource.shaders \o <<Pending, Pending>>
            /\ resource'.programs = resource.programs
            /\ sent' = <<Call(id, "CreateShader", <<0>>), Call(id + 1, "CreateShader", <<1>>)>>
            /\ loc'.entry = Len(resource.programs)
            /\ pc' = "get_shader_vs"

C4_Link ==
    (Len(sent') > Len(sent) /\ sent'[Len(sent')].cmd = "CreateProgram") =>
        LET n == Len(resource.shaders)
            vs == resource.shaders[n - 1]
            fs == resource.shaders[n]
        IN  /\ call.op = "create_program" /\ Len(sent) = 2
            /\ sent[1].token = n - 2 /\ sent[2].token = n - 1
            /\ vs.st = "Loaded" /\ fs.st = "Loaded"
            /\ sent'[3] = Call(loc.entry, "CreateProgram", <<vs.v, fs.v>>)
            /\ loc.entry = Len(resource.programs)
            /\ resource'.programs = Append(resource.programs, Pending)
            /\ pc' = "done" /\ ret' = [tag |-> "token", v |-> loc.entry]

C4_Pending ==
    \A t \in 1..Len(resource.programs) :
        (resource.programs[t].st = "Pending" /\ resource'.programs[t].st # "Pending") =>
            /\ channel # <<>>
            /\ Head(channel).kind = "programs" /\ Head(channel).token = t - 1
            /\ channel' = Tail(channel)

C4_Waits ==
    (call.op = "create_program" /\ pc \in {"get_shader_vs", "get_shader_fs"}) =>
        /\ Len(sent) = 2
        /\ Len(resource.programs) = loc.entry

C4_CreateProgram == []C4_Waits /\ [][C4_Start /\ C4_Link /\ C4_Pending]_vars

\* The second create_program returned token 1 for shaders 2 and 3, having
\* applied the reply of the first program while it waited.
C4_Witness ==
    /\ pc = "done" /\ call.op = "create_program"
    /\ ret.v = 1
    /\ sent[3].args = <<32, 33>>
    /\ At(resource.programs, 0).st # "Pending"
    /\ At(resource.programs, 1).st = "Pending"

\* The mesh attributes named as program attribute sat, in mesh order.
Named(mesh, sat) == {j \in 1..Len(mesh.attributes) : mesh.attributes[j].name = sat.name}

\* Program attribute sat cannot be bound: the mesh has no attribute of its name,
\* or the one it has (the first of that name) is of an incompatible type.
Unbindable(mesh, sat) ==
    \/ Named(mesh, sat) = {}
    \/ mesh.attributes[Min(Named(mesh, sat))].elem_type # sat.base_type

\* draw returned, and it had called bind_mesh.
MeshReturned ==
    /\ pc = "done" /\ call.op = "draw"
    /\ At(resource.programs, call.bundle.program).st = "Loaded"
    /\ ret.tag \notin {"ErrorBundleBlock", "ErrorBundleTexture"}

SelectCmd(seq, cmd) == SelectSeq(seq, LAMBDA m : m.cmd = cmd)

\* C11: bind_mesh walks the program's attributes in order and emits one
\* BindAttribute for each one the mesh has under that name with a compatible
\* type; at the first one the mesh lacks it returns 'attribute missing', at the
\* first of an incompatible type 'attribute type', having emitted the
\* BindAttributes of the earlier attributes and none for that one or a later one.
C11_BindMesh ==
    MeshReturned =>
        LET mesh == call.mesh
            prog == At(resource.programs, call.bundle.program).v.attributes
            fails == {i \in 1..Len(prog) : Unbindable(mesh, prog[i])}
            n == IF fails = {} THEN Len(prog) ELSE Min(fails) - 1
            vat(i) == mesh.attributes[Min(Named(mesh, prog[i]))]
        IN  /\ SelectCmd(sent, "BindAttribute") =
                  [i \in 1..n |-> Cast("BindAttribute",
                        <<prog[i].location, At(resource.buffers, vat(i).buffer).v,
                          vat(i).elem_type>>)]
            /\ ret.tag = (IF fails = {} THEN "Ok"
                          ELSE IF Named(mesh, prog[Min(fails)]) = {}
                          THEN "ErrorAttributeMissing" ELSE "ErrorAttributeType")
            /\ IsSuffix(device_tx, sent) \/ IsSuffix(sent, device_tx)

\* A draw that bound the first program attribute and returned 'attribute type'
\* for the second, all of it still in the request channel.
C11_Witness ==
    /\ MeshReturned
    /\ ret.tag = "ErrorAttributeType"
    /\ Len(SelectCmd(sent, "BindAttribute")) = 1
    /\ IsSuffix(sent, device_tx)

\* C12: a failed creation reply is not fatal: no renderer operation ends in
\* a task failure because a slot it resolves ended Failed; the failure is only
\* queued as a device error.
C12_FailedNotFatal ==
    ~(/\ pc = "aborted"
      /\ call.op \in {"update_buffer", "update_texture"}
      /\ At(resource[IF call.op = "update_buffer" THEN "buffers" ELSE "textures"],
            call.handle).st = "Failed")

\* The error a drained reply adds to the queue.
Queued(reply) == IF reply.ok THEN <<>> ELSE <<DeviceError(reply.kind, reply.token)>>

C13_Step ==
    /\ Len(channel') < Len(channel) =>
          /\ channel' = Tail(channel)
          /\ errors' = errors \o Queued(Head(channel))
    /\ (pc = "idle" /\ call'.op = "errors") =>
          /\ pc' = "done"
          /\ ret' = [tag |-> "errors", v |-> errors]
          /\ errors' = <<>>
    /\ (Len(channel') >= Len(channel) /\ call'.op # "errors") => errors' = errors
    /\ call.op = "errors" => (errors' = errors /\ (pc' = "done" => ret' = ret))

C13_Once ==
    /\ \A i, j \in 1..Len(errors) : errors[i] = errors[j] => i = j
    /\ \A i \in 1..Len(errors) : Get(resource, errors[i]) = Failed
    /\ (pc = "done" /\ call.op = "errors") =>
          /\ \A i, j \in 1..Len(ret.v) : ret.v[i] = ret.v[j] => i = j
          /\ \A i \in 1..Len(ret.v), j \in 1..Len(errors) : ret.v[i] # errors[j]

\* C13: every failed reply drained by demand is appended once to the error
\* queue, in the order drained, whatever token it is for; errors() returns the
\* queue as it stands and leaves it empty; nothing else changes the queue, so
\* no error is queued twice or returned twice.
C13_ErrorQueue == []C13_Once /\ [][C13_Step]_vars

\* errors() returned two errors in the order they were drained, the first for
\* the array buffer, which no operation of this caller waits on.
C13_Witness ==
    /\ pc = "done" /\ call.op = "errors"
    /\ Len(ret.v) = 2
    /\ ret.v[1].kind = "array_buffers" /\ ret.v[2].kind = "buffers"
    /\ errors = <<>>

\* SwapBuffers requests sent and not yet acknowledged to the renderer: those
\* the worker has not received plus the Acks it sent that wait unread.
Unacknowledged == Len(SelectCmd(device_tx, "SwapBuffers")) + swap_ack

C14_State ==
    /\ Unacknowledged = (IF pc = "end_frame" THEN 1 ELSE 0)
    /\ pc = "end_frame" => (sent = <<SwapBuffers>> /\ rcvd = 0)
    /\ (pc = "done" /\ call.op = "end_frame") => (sent = <<SwapBuffers>> /\ rcvd = 1)

C14_Step ==
    /\ (pc # "end_frame" /\ pc' = "end_frame") =>
          (device_tx' = Append(device_tx, SwapBuffers) /\ swap_ack' = swap_ack)
    /\ (pc = "end_frame" /\ pc' # "end_frame") =>
          (pc' = "done" /\ swap_ack' = swap_ack - 1 /\ device_tx' = device_tx)
    /\ (swap_ack' < swap_ack \/ Len(SelectCmd(device_tx', "SwapBuffers"))
                                   > Len(SelectCmd(device_tx, "SwapBuffers")))
          => (pc = "end_frame" \/ pc' = "end_frame")

C15_BundleProgram ==
    call.op = "bundle_program" =>
        /\ sent = <<>>
        /\ pc \in {"bundle_program", "done"}
        /\ pc = "bundle_program" => ret = NoRet
        /\ pc = "done" =>
              LET slot == At(resource.programs, call.prog)
                  declared == ParamNames(ProgramMeta(call.prog))
              IN  /\ ~is_pending(slot)
                  /\ (ret.tag = "ErrorBadProgram") <=> (slot.st = "Failed")
                  /\ slot.st = "Loaded" =>
                        /\ slot.v = ProgramMeta(call.prog)
                        /\ ret.tag = (IF ~(call.data \subseteq declared)
                                      THEN "ErrorUnusedParameter"
                                      ELSE IF ~(declared \subseteq call.data)
                                      THEN "ErrorMissingParameter" ELSE "Ok")
                        /\ ret.tag = "Ok" => ret.v.program = call.prog

\* bundle_program of the second program, having drained replies until the
\* program resolved, returned 'unused parameter' for an object that also leaves
\* a declared parameter unbound.
C15_Witness ==
    /\ pc = "done" /\ call.op = "bundle_program"
    /\ call.prog = 1 /\ rcvd > 0
    /\ ret.tag = "ErrorUnusedParameter"
    /\ ~(ParamNames(ProgramMeta(call.prog)) \subseteq call.data)

\* Where the request or the reply of an allocated slot is.
InRequests(s) ==
    \E k \in 1..Len(device_tx) :
        /\ device_tx[k].tag = "Call"
        /\ Slot(KindOf(device_tx[k].cmd), device_tx[k].token) = s

One(b) == IF b THEN 1 ELSE 0

Delivered(s) == {k \in 1..Len(channel) : Slot(channel[k].kind, channel[k].token) = s}

\* Every allocated slot is in exactly one of four places: its Call is in the
\* request channel, the worker holds it, its reply is (once) in the reply
\* channel, or the reply was applied to it; so the delivered replies not yet
\* applied are those still in the channel, behind every reply consumed so far.
C16_Applied ==
    \A kind \in Kinds : \A token \in Tokens(kind) :
        LET s == Slot(kind, token)
            slot == Get(resource, s)
        IN  /\ Cardinality(Delivered(s)) <= 1
            /\ One(InRequests(s)) + One(s \in calls) + One(Delivered(s) # {})
                  + One(~is_pending(slot)) = 1
            /\ slot.st = "Loaded" => slot.v = ReplyValue(kind, token)

\* C16: with a worker that eventually replies once to every Call it receives,
\* in any order, every demand on an allocated token eventually returns, and on
\* return every reply delivered before the awaited one has been applied to its
\* own slot.
C16_DemandReturns ==
    /\ []C16_Applied
    /\ (pc = "update_buffer") ~> (pc # "update_buffer")

\* The demand on buffer 0 returned after applying the replies of buffer 1 and
\* of the framebuffer, delivered before its own; the array buffer's is to come.
C16_Witness ==
    /\ pc = "update_buffer" /\ call.handle = 0 /\ Ready
    /\ rcvd = 3
    /\ Len(resource.buffers) = 2
    /\ ~is_pending(At(resource.buffers, 1))
    /\ ~is_pending(At(resource.frame_buffers, 0))
    /\ is_pending(At(resource.array_buffers, 0))

\* The items of the drawn bundle of a kind whose resource is Loaded.
GoodItems(kind, table) ==
    {k \in 1..Len(call.bundle.data) :
        /\ call.bundle.data[k].kind = kind
        /\ At(resource[table], call.bundle.data[k].handle).st = "Loaded"}

\* C17: within one bind_shader_bundle the BindUniformBlock commands carry the
\* slots 0, 1, 2, ... in traversal order, a block whose buffer is not Loaded
\* taking no slot; the BindTexture commands carry the slots 0, 1, 2, ... and
\* each comes right after a BindUniform of that same slot index, a texture that
\* is not Loaded emitting neither command and taking no slot.
C17_Slots ==
    (call.op = "draw" /\ pc \in {"done", "aborted"}) =>
        LET blocks == SelectCmd(sent, "BindUniformBlock")
            textures == SelectCmd(sent, "BindTexture")
            uniforms == SelectCmd(sent, "BindUniform")
            plain == {k \in 1..Len(call.bundle.data) : call.bundle.data[k].kind = "uniform"}
        IN  /\ \A k \in 1..Len(blocks) : blocks[k].args[2] = k - 1
            /\ \A k \in 1..Len(textures) : textures[k].args[1] = k - 1
            /\ \A j \in 1..Len(sent) : sent[j].cmd = "BindTexture" =>
                  /\ j > 1
                  /\ sent[j - 1].cmd = "BindUniform"
                  /\ sent[j - 1].args[2] = sent[j].args[1]
            /\ BundleReturned =>
                  /\ Len(blocks) = Cardinality(GoodItems("block", "buffers"))
                  /\ Len(textures) = Cardinality(GoodItems("texture", "textures"))
                  /\ Len(uniforms) = Cardinality(plain) + Len(textures)

\* A bundle of three items whose first is a texture that Failed and whose
\* other two are Loaded textures: the two BindTextures carry the slots 0 and 1.
C17_Witness ==
    /\ BundleReturned
    /\ Len(call.bundle.data) = 3
    /\ BadItems("texture", "textures") = {1}
    /\ Len(SelectCmd(sent, "BindTexture")) = 2
    /\ ret.tag = "ErrorBundleTexture"

\* The reply addresses a slot that exists and is Pending.
Addressed(reply) ==
    /\ reply.token < Len(resource[reply.kind])
    /\ is_pending(At(resource[reply.kind], reply.token))

\* C18: the creation functions send the Call before they push the Pending
\* slot, yet every reply drained by demand addresses a slot that exists and is
\* Pending; outside the window between the send and the push so does every
\* reply waiting in the channel.
C18_ReplyInTable ==
    /\ [](pc # "create_push" => \A k \in 1..Len(channel) : Addressed(channel[k]))
    /\ [][Len(channel') < Len(channel) => Addressed(Head(channel))]_vars

\* Between the send and the push of a creation, the reply for the token is
\* already in the reply channel and the table does not hold the slot yet.
C18_Witness ==
    /\ pc = "create_push"
    /\ loc.token = Len(resource[loc.kind])
    /\ \E k \in 1..Len(channel) :
          channel[k].kind = loc.kind /\ channel[k].token = loc.token

\* The draw in progress has passed the demand of its program.
PastProgramDemand ==
    /\ call.op = "draw"
    /\ \/ pc \in {"get_common_array_buffer", "bind_frame", "done"}
       \/ pc = "aborted" /\ sent # <<>>

\* C19: the 'Program is not loaded yet' failure of draw is unreachable: from
\* the demand of the program on, and so when draw matches on the slot, the
\* program slot is Loaded or Failed; a draw fails only on an unwrap.
C19_ProgramResolved ==
    /\ [](PastProgramDemand =>
            At(resource.programs, call.bundle.program).st \in {"Loaded", "Failed"})
    /\ [][(call.op = "draw" /\ pc \in {"get_common_array_buffer", "bind_frame"}
            /\ pc' \in {"done", "aborted"}) =>
             /\ DrawTail(call, resource).tag = "abort" =>
                   At(resource.programs, call.bundle.program).st = "Loaded"
             /\ At(resource.programs, call.bundle.program).st # "Pending"]_vars

\* A draw that drained replies and returned the program error, the failure
\* of its program being the last device error queued.
C19_Witness ==
    /\ call.op = "draw" /\ pc = "done"
    /\ ret.tag = "ErrorProgram"
    /\ rcvd > 0
    /\ Len(errors) > 0 /\ errors[Len(errors)] = DeviceError("programs", call.bundle.program)

C20_Step ==
    /\ (pc = "idle" /\ call'.op \in {"clear", "draw"} /\ is_default(call'.frame)) =>
          state_frame' = state_frame
    /\ state_frame' # state_frame =>
          (pc = "bind_frame" /\ ~is_default(call.frame) /\ state_frame' = call.frame)
    /\ (pc = "bind_frame" /\ pc' = "done" /\ call.frame = state_frame) =>
          /\ Out = <<Cast("BindFrameBuffer", <<At(resource.frame_buffers, 0).v>>),
                     Cast("Clear", <<>>)>>
          /\ state_frame' = state_frame

\* C20: a bind of the default frame leaves the stored last-bound frame as it
\* was, so the stored frame is the initial one or the last non-default frame
\* bound, a later non-default bind is diffed against it, and binding that same
\* frame again emits BindFrameBuffer(common framebuffer) and no BindTarget.
C20_DefaultKeepsFrame ==
    /\ [](state_frame = FrameNew \/ ~is_default(state_frame))
    /\ [][C20_Step]_vars

\* A clear of the default frame returned and the stored frame is still the
\* non-default frame bound before it.
C20_Witness ==
    /\ pc = "done" /\ call.op = "clear" /\ is_default(call.frame)
    /\ ~is_default(state_frame)
    /\ sent = <<Cast("BindFrameBuffer", <<default_frame_buffer>>), Cast("Clear", <<>>)>>

====
